---- MODULE Spec2Model ----
(***************************************************************************)
(* Model of package log (jemmyhuang/utils): the global Logger registry     *)
(* (std, mu, Init), Logger construction (NewLogger, createDirIfNotExists,  *)
(* getLogWriter), the leveled write calls, and context correlation (C,     *)
(* clone).                                                                 *)
(*                                                                         *)
(* Goroutines are the processes.  Memory is modelled with the              *)
(* happens-before order of the Go memory model: every write of the global  *)
(* slot std is kept in the history `writes`; hb[g] is the latest write     *)
(* that happens before goroutine g's current point.  A read of std that is *)
(* not ordered after the latest write is a data race and may observe any   *)
(* write from hb[g] on, and need not see the pointee initialised.          *)
(***************************************************************************)
EXTENDS Integers, Sequences, FiniteSets, TLC

(* ------------------------------ bounds -------------------------------- *)
\* goroutines using the package
NumProcs == 2
\* zapLogger values that may be allocated while goroutines initialise concurrently
MaxLoggers == 2
\* zapLogger values that may be allocated while goroutines derive by context
MaxDerived == 3
\* longest Options.OutputPaths
MaxPaths == 2

Procs == 1..NumProcs

(* --------------------------- levels (log.go) -------------------------- *)
DebugLevel == 0 - 1
InfoLevel == 0
WarnLevel == 1
ErrorLevel == 2
DPanicLevel == 3
PanicLevel == 4
FatalLevel == 5

\* the levels of Debugw, Infow, Warnw, Errorw, Panicw, Fatalw
WriteLevels == {DebugLevel, InfoLevel, WarnLevel, ErrorLevel, PanicLevel, FatalLevel}

\* Options.Level tokens tried: the documented set, other spellings, bad ones
GoodTokens == {"debug", "info", "warn", "error", "dpanic", "panic", "fatal"}
OtherTokens == {"DEBUG", "Warn", ""}
BadTokens == {"bogus", "warning"}
Tokens == GoodTokens \cup OtherTokens \cup BadTokens

\* bytes.ToLower on the tokens tried
ToLower(t) ==
    CASE t = "DEBUG" -> "debug"
      [] t = "Warn" -> "warn"
      [] OTHER -> t

\* zapcore.Level.unmarshalText: the exact spellings it accepts
knownText(t) ==
    t \in {"debug", "DEBUG", "info", "INFO", "", "warn", "WARN", "error", "ERROR",
           "dpanic", "DPANIC", "panic", "PANIC", "fatal", "FATAL"}
textLevel(t) ==
    CASE t \in {"debug", "DEBUG"} -> DebugLevel
      [] t \in {"info", "INFO", ""} -> InfoLevel
      [] t \in {"warn", "WARN"} -> WarnLevel
      [] t \in {"error", "ERROR"} -> ErrorLevel
      [] t \in {"dpanic", "DPANIC"} -> DPanicLevel
      [] t \in {"panic", "PANIC"} -> PanicLevel
      [] t \in {"fatal", "FATAL"} -> FatalLevel

\* zapLevel.UnmarshalText([]byte(opts.Level)): the text, then its lower case
UnmarshalText(t) ==
    IF knownText(t) THEN [err |-> FALSE, level |-> textLevel(t)]
    ELSE IF knownText(ToLower(t))
         THEN [err |-> FALSE, level |-> textLevel(ToLower(t))]
         ELSE [err |-> TRUE, level |-> InfoLevel]

FallbackDebug(t) ==
    IF UnmarshalText(t).err THEN DebugLevel ELSE UnmarshalText(t).level

\* NewLogger lines 74-78: the parsed level, info when the token is illegal
ParseZapLevel(t) ==
    IF UnmarshalText(t).err THEN InfoLevel ELSE UnmarshalText(t).level

(* --------------------------- file system ------------------------------ *)
\* output paths tried and filepath.Dir of each
logFilePath == "./app.log"
Paths == {"", "./app.log", "./t/app.log", "/ro/logs/app.log", "/na/app.log", "/f/app.log"}
Dir(p) ==
    CASE p = "" -> "."
      [] p = "./app.log" -> "."
      [] p = "./t/app.log" -> "t"
      [] p = "/ro/logs/app.log" -> "/ro/logs"
      [] p = "/na/app.log" -> "/na"
      [] p = "/f/app.log" -> "/f"
Dirs == {Dir(p) : p \in Paths}

\* what a directory can be:
\*   exists      a usable directory
\*   missing     absent, MkdirAll succeeds
\*   missing_ro  absent, MkdirAll fails (read-only parent)
\*   stat_err    os.Stat fails with an error other than not-exist (EACCES)
\*   unusable    present but not writable, or a regular file: os.Stat succeeds
InitFs ==
    [d \in Dirs |->
        CASE d = "." -> "exists"
          [] d = "t" -> "missing"
          [] d = "/ro/logs" -> "missing_ro"
          [] d = "/na" -> "stat_err"
          [] d = "/f" -> "unusable"]

\* os.IsNotExist(err) of os.Stat(dir)
StatNotExist(st) == st \in {"missing", "missing_ro"}
\* os.MkdirAll(dir, 0755) fails
MkdirFails(st) == st = "missing_ro"

createDirIgnoringError(f, p) ==
    [err |-> FALSE,
     fs |-> IF StatNotExist(f[Dir(p)]) /\ ~MkdirFails(f[Dir(p)])
            THEN [f EXCEPT ![Dir(p)] = "exists"] ELSE f]

\* createDirIfNotExists(file): [err, fs after]
createDirIfNotExists(f, p) ==
    IF StatNotExist(f[Dir(p)])
    THEN IF MkdirFails(f[Dir(p)])
         THEN [err |-> TRUE, fs |-> f]
         ELSE [err |-> FALSE, fs |-> [f EXCEPT ![Dir(p)] = "exists"]]
    ELSE [err |-> FALSE, fs |-> f]

\* getLogWriter: the lumberjack file name (the default path for "")
LogFilename(p) == IF p = "" THEN logFilePath ELSE p

(* ------------------------------ options ------------------------------- *)
SeqsUpTo(S, n) == UNION {[1..k -> S] : k \in 0..n}

NilOptions == [isNil |-> TRUE, Level |-> "", OutputPaths |-> <<>>]
\* NewOptions()
NewOptions == [isNil |-> FALSE, Level |-> "info", OutputPaths |-> <<logFilePath>>]

\* every Options value tried by the construction specification
AllOptions ==
    {NilOptions} \cup
    {[isNil |-> FALSE, Level |-> t, OutputPaths |-> ps] :
        t \in Tokens, ps \in SeqsUpTo(Paths, MaxPaths)}

\* the Options values tried by the concurrent specification
FewOptions ==
    {NilOptions,
     [isNil |-> FALSE, Level |-> "error", OutputPaths |-> <<"./t/app.log">>],
     [isNil |-> FALSE, Level |-> "bogus", OutputPaths |-> <<"/ro/logs/app.log">>]}

(* ------------------------------ contexts ------------------------------ *)
\* the context key C looks up: the value RequestIdKey{}
RequestIdKey == "RequestIdKey{}"
\* the field name C attaches: var RequestId
RequestId == "x-request-id"
Nil == "nil"
CtxKeys == {RequestIdKey, RequestId}
CtxVals == {"r1", "r2"}
\* contexts tried: any token or none under the key RequestIdKey{}, and "r1" or
\* nothing under the string "x-request-id"
Contexts == {c \in [CtxKeys -> CtxVals \cup {Nil}] : c[RequestId] \in {"r1", Nil}}

ValueByFieldName(ctx) == ctx[RequestId]

\* ctx.Value(RequestIdKey{})
ContextValue(ctx) == ctx[RequestIdKey]

(* ------------------------- zap loggers (heap) ------------------------- *)
\* zapcore.NewCore(encoder, writeSyncer, zapLevel) for one output path
FileCore(p, lvl) == [kind |-> "file", file |-> LogFilename(p), min |-> lvl]

ConsoleAtConfiguredLevel(fileCores, zapLevel) ==
    Append(fileCores, [kind |-> "console", file |-> "stdout", min |-> zapLevel])

\* NewLogger lines 97-105: the file cores plus the console core at debug
NewLoggerCores(fileCores, zapLevel) ==
    Append(fileCores, [kind |-> "console", file |-> "stdout", min |-> DebugLevel])

\* zapcore.NewTee: each core decides by its own level
Deliver(cores, R) == [i \in 1..Len(cores) |-> R >= cores[i].min]

\* the Logger std is initialised with: NewLogger(NewOptions())
DefaultZap ==
    [cores |-> NewLoggerCores(<<FileCore(logFilePath, ParseZapLevel(NewOptions.Level))>>,
                              ParseZapLevel(NewOptions.Level)),
     fields |-> <<>>]

\* z.With(zap.Any(RequestId, requestID))
With(z, v) == [z EXCEPT !.fields = Append(@, [key |-> RequestId, val |-> v])]

cloneByReference(w, l) == [wrap |-> w, id |-> l]

\* clone: lc := *l; return &lc  -- a new zapLogger sharing l's z
clone(w, l) == [wrap |-> Append(w, w[l]), id |-> Len(w) + 1]

\* (l *zapLogger) C(ctx): [wrap, zaps, id] after deriving from zapLogger l
DeriveC(w, zs, l, ctx) ==
    LET c == clone(w, l) IN
    IF ContextValue(ctx) # Nil
    THEN [wrap |-> [c.wrap EXCEPT ![c.id] = Len(zs) + 1],
          zaps |-> Append(zs, With(zs[c.wrap[c.id]], ContextValue(ctx))),
          id |-> c.id]
    ELSE [wrap |-> c.wrap, zaps |-> zs, id |-> c.id]

(* ------------------------------- state -------------------------------- *)
VARIABLES
    fs,        \* directory -> what it is
    zaps,      \* heap of zap.Logger values: [cores, fields]
    wrap,      \* heap of zapLogger values: each the index of its z in zaps
    writes,    \* every value written to std, oldest first; the last is std
    hb,        \* goroutine -> index in writes of the latest write ordered before it
    mu,        \* the goroutine holding mu, or Unlocked
    muRel,     \* index in writes ordered before the latest mu.Unlock
    stdlog,    \* the zap.Logger zap.RedirectStdLog last targeted
    pc,        \* goroutine -> where it is: idle, dirs, assign, unlock, panic
    call,      \* goroutine -> the call it is in: none, Init, NewLogger, write
    loc,       \* goroutine -> NewLogger's locals
    held,      \* goroutine -> the *zapLogger it keeps (0: none)
    heldSnap,  \* goroutine -> the zap.Logger held had when it was obtained
    lastRead,  \* the latest read of std
    lastC,     \* the latest derivation by C
    last,      \* the latest record written, or flush
    built,     \* the latest Logger NewLogger built and what it was built from
    doneIdx,   \* index in writes of the write of the latest Init that returned
    hadPanic,  \* some goroutine recovered from an Init that panicked
    exited     \* the process has terminated

vars == <<fs, zaps, wrap, writes, hb, mu, muRel, stdlog, pc, call, loc, held,
          heldSnap, lastRead, lastC, last, built, doneIdx, hadPanic, exited>>

\* sync.Mutex zero value
Unlocked == 0

NoZap == [cores |-> <<>>, fields |-> <<>>]
NoLoc == [token |-> "", level |-> InfoLevel, paths |-> <<>>, i |-> 1, cores |-> <<>>,
          ret |-> 0]
NoRead == [set |-> FALSE, idx |-> 1, raced |-> FALSE, complete |-> TRUE, done |-> 1]
NoC == [set |-> FALSE, base |-> 0, baseFields |-> <<>>, baseCores |-> <<>>,
        ctx |-> [k \in CtxKeys |-> Nil], res |-> 0]
NoRecord == [op |-> "none", cores |-> <<>>, fields |-> <<>>, level |-> InfoLevel, to |-> <<>>]

\* package initialisation: std = NewLogger(NewOptions()) in the working directory
Init ==
    /\ fs = InitFs
    /\ zaps = <<DefaultZap>>
    /\ wrap = <<1>>
    /\ writes = <<1>>
    /\ hb = [g \in Procs |-> 1]
    /\ mu = Unlocked
    /\ muRel = 1
    /\ stdlog = 1
    /\ pc = [g \in Procs |-> "idle"]
    /\ call = [g \in Procs |-> "none"]
    /\ loc = [g \in Procs |-> NoLoc]
    /\ held = [g \in Procs |-> 0]
    /\ heldSnap = [g \in Procs |-> NoZap]
    /\ lastRead = NoRead
    /\ lastC = NoC
    /\ last = NoRecord
    /\ built = [token |-> NewOptions.Level, paths |-> NewOptions.OutputPaths, z |-> 1]
    /\ doneIdx = 1
    /\ hadPanic = FALSE
    /\ exited = FALSE

Max(a, b) == IF a >= b THEN a ELSE b

\* the zap.Logger of zapLogger l
Z(l) == zaps[wrap[l]]
\* the value of std in memory
Std == writes[Len(writes)]
\* zapLogger values allocated or about to be
Reserved == Len(wrap) + Cardinality({g \in Procs : pc[g] = "dirs"})

(* --------------------------- Init, NewLogger -------------------------- *)
LockNotTaken(g) == mu

\* mu.Lock()
Lock(g) == g

UnlockSkippedOnPanic(g) == mu

\* defer mu.Unlock(), run while a panic unwinds Init
DeferredUnlock(g) == IF call[g] = "Init" THEN Unlocked ELSE mu

RedirectOnlyFromInit(g, z) == IF call[g] = "Init" THEN z ELSE stdlog

\* zap.RedirectStdLog(z) in NewLogger, whoever called it
RedirectStdLog(g, z) == z

\* NewLogger lines 69-78: nil options default, the level is parsed
StartLocals(o) ==
    LET opts == IF o.isNil THEN NewOptions ELSE o IN
    [token |-> opts.Level, level |-> ParseZapLevel(opts.Level),
     paths |-> opts.OutputPaths, i |-> 1, cores |-> <<>>, ret |-> 0]

\* Init(opts): mu.Lock(), then NewLogger starts
InitCall(g, O, cap) ==
    /\ ~exited /\ pc[g] = "idle" /\ mu = Unlocked /\ Reserved < cap
    /\ \E o \in O : loc' = [loc EXCEPT ![g] = StartLocals(o)]
    /\ mu' = Lock(g)
    /\ hb' = [hb EXCEPT ![g] = Max(@, muRel)]
    /\ pc' = [pc EXCEPT ![g] = "dirs"]
    /\ call' = [call EXCEPT ![g] = "Init"]
    /\ UNCHANGED <<fs, zaps, wrap, writes, muRel, stdlog, held, heldSnap,
                   lastRead, lastC, last, doneIdx, hadPanic, exited, built>>

\* NewLogger(opts) called directly
NewLoggerCall(g, O, cap) ==
    /\ ~exited /\ pc[g] = "idle" /\ Reserved < cap
    /\ \E o \in O : loc' = [loc EXCEPT ![g] = StartLocals(o)]
    /\ pc' = [pc EXCEPT ![g] = "dirs"]
    /\ call' = [call EXCEPT ![g] = "NewLogger"]
    /\ UNCHANGED <<fs, zaps, wrap, writes, hb, mu, muRel, stdlog, held, heldSnap,
                   lastRead, lastC, last, doneIdx, hadPanic, exited, built>>

\* one turn of the loop over opts.OutputPaths (lines 82-93)
NLDir(g) ==
    /\ ~exited /\ pc[g] = "dirs" /\ loc[g].i <= Len(loc[g].paths)
    /\ LET p == loc[g].paths[loc[g].i]
           r == createDirIfNotExists(fs, p) IN
       IF r.err
       THEN /\ pc' = [pc EXCEPT ![g] = "panic"]
            /\ UNCHANGED <<fs, loc>>
       ELSE /\ fs' = r.fs
            /\ loc' = [loc EXCEPT ![g].i = @ + 1,
                                  ![g].cores = Append(@, FileCore(p, loc[g].level))]
            /\ UNCHANGED pc
    /\ UNCHANGED <<zaps, wrap, writes, hb, mu, muRel, stdlog, call, held, heldSnap,
                   lastRead, lastC, last, doneIdx, hadPanic, exited, built>>

\* lines 97-117: console core, tee, zap.New, zap.RedirectStdLog, return
NLBuild(g) ==
    /\ ~exited /\ pc[g] = "dirs" /\ loc[g].i > Len(loc[g].paths)
    /\ zaps' = Append(zaps, [cores |-> NewLoggerCores(loc[g].cores, loc[g].level),
                             fields |-> <<>>])
    /\ wrap' = Append(wrap, Len(zaps) + 1)
    /\ stdlog' = RedirectStdLog(g, Len(zaps) + 1)
    /\ built' = [token |-> loc[g].token, paths |-> loc[g].paths, z |-> Len(zaps) + 1]
    /\ IF call[g] = "Init"
       THEN /\ pc' = [pc EXCEPT ![g] = "assign"]
            /\ loc' = [loc EXCEPT ![g] = [NoLoc EXCEPT !.ret = Len(wrap) + 1]]
            /\ UNCHANGED <<call, held, heldSnap>>
       ELSE /\ pc' = [pc EXCEPT ![g] = "idle"]
            /\ call' = [call EXCEPT ![g] = "none"]
            /\ loc' = [loc EXCEPT ![g] = NoLoc]
            /\ held' = [held EXCEPT ![g] = Len(wrap) + 1]
            /\ heldSnap' = [heldSnap EXCEPT ![g] = zaps'[Len(zaps')]]
    /\ UNCHANGED <<fs, writes, hb, mu, muRel, lastRead, lastC, last, doneIdx,
                   hadPanic, exited>>

\* std = NewLogger(opts)
InitAssign(g) ==
    /\ ~exited /\ pc[g] = "assign"
    /\ writes' = Append(writes, loc[g].ret)
    /\ hb' = [hb EXCEPT ![g] = Len(writes) + 1]
    /\ pc' = [pc EXCEPT ![g] = "unlock"]
    /\ loc' = [loc EXCEPT ![g] = NoLoc]
    /\ UNCHANGED <<fs, zaps, wrap, mu, muRel, stdlog, call, held, heldSnap,
                   lastRead, lastC, last, doneIdx, hadPanic, exited, built>>

\* the deferred mu.Unlock() as Init returns
InitUnlock(g) ==
    /\ ~exited /\ pc[g] = "unlock"
    /\ mu' = Unlocked
    /\ muRel' = hb[g]
    /\ doneIdx' = hb[g]
    /\ pc' = [pc EXCEPT ![g] = "idle"]
    /\ call' = [call EXCEPT ![g] = "none"]
    /\ UNCHANGED <<fs, zaps, wrap, writes, hb, stdlog, loc, held, heldSnap,
                   lastRead, lastC, last, hadPanic, exited, built>>

\* a panic unwinds the call (deferred calls run) and the caller recovers
PanicRecovered(g) ==
    /\ ~exited /\ pc[g] = "panic"
    /\ mu' = DeferredUnlock(g)
    /\ muRel' = IF call[g] = "Init" THEN hb[g] ELSE muRel
    /\ hadPanic' = (hadPanic \/ call[g] = "Init")
    /\ pc' = [pc EXCEPT ![g] = "idle"]
    /\ call' = [call EXCEPT ![g] = "none"]
    /\ loc' = [loc EXCEPT ![g] = NoLoc]
    /\ UNCHANGED <<fs, zaps, wrap, writes, hb, stdlog, held, heldSnap,
                   lastRead, lastC, last, doneIdx, exited, built>>

\* a panic unwinds the call and nobody recovers: the process dies
PanicCrash(g) ==
    /\ ~exited /\ pc[g] = "panic"
    /\ mu' = DeferredUnlock(g)
    /\ muRel' = IF call[g] = "Init" THEN hb[g] ELSE muRel
    /\ exited' = TRUE
    /\ pc' = [pc EXCEPT ![g] = "idle"]
    /\ call' = [call EXCEPT ![g] = "none"]
    /\ loc' = [loc EXCEPT ![g] = NoLoc]
    /\ UNCHANGED <<fs, zaps, wrap, writes, hb, stdlog, held, heldSnap,
                   lastRead, lastC, last, doneIdx, hadPanic, built>>

(* ------------------------ reads of the slot std ------------------------ *)
\* what an unlocked read of std by g may observe: any write from hb[g] on; a
\* write not ordered before the read may be seen without its pointee
Reads(g) ==
    {[set |-> TRUE, idx |-> j, raced |-> hb[g] < Len(writes),
      complete |-> c, done |-> doneIdx] :
        j \in hb[g]..Len(writes), c \in BOOLEAN} \ 
    {[set |-> TRUE, idx |-> hb[g], raced |-> hb[g] < Len(writes),
      complete |-> FALSE, done |-> doneIdx]}

WriteRecord(z, R) ==
    [op |-> "write", cores |-> z.cores, fields |-> z.fields, level |-> R,
     to |-> Deliver(z.cores, R)]
SyncRecord(z) ==
    [op |-> "sync", cores |-> z.cores, fields |-> z.fields, level |-> InfoLevel,
     to |-> <<>>]

\* after the record is written: Panicw panics, Fatalw exits the process
Finish(g, R) ==
    /\ pc' = IF R = PanicLevel THEN [pc EXCEPT ![g] = "panic"] ELSE pc
    /\ call' = IF R = PanicLevel THEN [call EXCEPT ![g] = "write"] ELSE call
    /\ exited' = (R = FatalLevel)

\* a nil dereference: the pointee of std was not visible to the reader
Fault(g) ==
    /\ pc' = [pc EXCEPT ![g] = "panic"]
    /\ call' = [call EXCEPT ![g] = "write"]
    /\ UNCHANGED exited

DerivedRecord(base, ctx, res) ==
    [set |-> TRUE, base |-> base, baseFields |-> Z(base).fields,
     baseCores |-> Z(base).cores, ctx |-> ctx, res |-> res]

(* ------------------------ package-level calls -------------------------- *)
\* Debugw, Infow, Warnw, Errorw, Panicw, Fatalw: std.z.Sugar().Xw(msg, ...)
PkgWrite(g, R) ==
    /\ ~exited /\ pc[g] = "idle"
    /\ \E r \in Reads(g) :
        /\ lastRead' = r
        /\ IF r.complete
           THEN last' = WriteRecord(Z(writes[r.idx]), R) /\ Finish(g, R)
           ELSE UNCHANGED last /\ Fault(g)
    /\ UNCHANGED <<fs, zaps, wrap, writes, hb, mu, muRel, stdlog, loc, held,
                   heldSnap, lastC, doneIdx, hadPanic, built>>

\* Sync(): std.Sync(), the flush error dropped
PkgSync(g) ==
    /\ ~exited /\ pc[g] = "idle"
    /\ \E r \in Reads(g) :
        /\ lastRead' = r
        /\ IF r.complete
           THEN last' = SyncRecord(Z(writes[r.idx])) /\ UNCHANGED <<pc, call, exited>>
           ELSE UNCHANGED last /\ Fault(g)
    /\ UNCHANGED <<fs, zaps, wrap, writes, hb, mu, muRel, stdlog, loc, held,
                   heldSnap, lastC, doneIdx, hadPanic, built>>

\* C(ctx): std.C(ctx), the result kept by the caller
PkgC(g, ctx, cap) ==
    /\ ~exited /\ pc[g] = "idle" /\ Reserved < cap
    /\ \E r \in Reads(g) :
        /\ lastRead' = r
        /\ IF r.complete
           THEN LET d == DeriveC(wrap, zaps, writes[r.idx], ctx) IN
                /\ wrap' = d.wrap
                /\ zaps' = d.zaps
                /\ held' = [held EXCEPT ![g] = d.id]
                /\ heldSnap' = [heldSnap EXCEPT ![g] = d.zaps[d.wrap[d.id]]]
                /\ lastC' = DerivedRecord(writes[r.idx], ctx, d.id)
                /\ UNCHANGED <<pc, call, exited>>
           ELSE /\ UNCHANGED <<wrap, zaps, held, heldSnap, lastC>>
                /\ Fault(g)
    /\ UNCHANGED <<fs, writes, hb, mu, muRel, stdlog, loc, last, doneIdx, hadPanic, built>>

\* XxxfWithContext(c, format, args...): C(c).Xw(msg); the derived Logger is dropped
PkgWriteCtx(g, ctx, R) ==
    /\ ~exited /\ pc[g] = "idle"
    /\ \E r \in Reads(g) :
        /\ lastRead' = r
        /\ IF r.complete
           THEN LET d == DeriveC(wrap, zaps, writes[r.idx], ctx) IN
                /\ last' = WriteRecord(d.zaps[d.wrap[d.id]], R)
                /\ Finish(g, R)
           ELSE UNCHANGED last /\ Fault(g)
    /\ UNCHANGED <<fs, zaps, wrap, writes, hb, mu, muRel, stdlog, loc, held,
                   heldSnap, lastC, doneIdx, hadPanic, built>>

(* --------------------- calls on a Logger reference --------------------- *)
\* l.Debugw ... l.Fatalw on the reference g keeps
RefWrite(g, R) ==
    /\ ~exited /\ pc[g] = "idle" /\ held[g] # 0
    /\ last' = WriteRecord(Z(held[g]), R)
    /\ Finish(g, R)
    /\ UNCHANGED <<fs, zaps, wrap, writes, hb, mu, muRel, stdlog, loc, held,
                   heldSnap, lastRead, lastC, doneIdx, hadPanic, built>>

\* l.Sync()
RefSync(g) ==
    /\ ~exited /\ pc[g] = "idle" /\ held[g] # 0
    /\ last' = SyncRecord(Z(held[g]))
    /\ UNCHANGED <<fs, zaps, wrap, writes, hb, mu, muRel, stdlog, pc, call, loc, held,
                   heldSnap, lastRead, lastC, doneIdx, hadPanic, exited, built>>

\* l.C(ctx) on the reference g keeps; g keeps the result instead
RefC(g, ctx, cap) ==
    /\ ~exited /\ pc[g] = "idle" /\ held[g] # 0 /\ Reserved < cap
    /\ LET d == DeriveC(wrap, zaps, held[g], ctx) IN
        /\ wrap' = d.wrap
        /\ zaps' = d.zaps
        /\ held' = [held EXCEPT ![g] = d.id]
        /\ heldSnap' = [heldSnap EXCEPT ![g] = d.zaps[d.wrap[d.id]]]
        /\ lastC' = DerivedRecord(held[g], ctx, d.id)
    /\ UNCHANGED <<fs, writes, hb, mu, muRel, stdlog, pc, call, loc, lastRead, last,
                   doneIdx, hadPanic, exited, built>>

(* --------------------------- specifications ---------------------------- *)
\* the levels and contexts the concurrent specifications try
SomeLevels == {ErrorLevel, PanicLevel}
StructContexts == {c \in Contexts : c[RequestId] = Nil}

\* goroutines initialising, constructing and writing concurrently
Next ==
    \E g \in Procs :
        \/ InitCall(g, FewOptions, MaxLoggers)
        \/ NewLoggerCall(g, FewOptions, MaxLoggers)
        \/ NLDir(g)
        \/ NLBuild(g)
        \/ InitAssign(g)
        \/ InitUnlock(g)
        \/ PanicRecovered(g)
        \/ PanicCrash(g)
        \/ \E R \in SomeLevels : PkgWrite(g, R)
        \/ PkgSync(g)
        \/ \E ctx \in StructContexts : PkgC(g, ctx, MaxLoggers)
        \/ \E R \in SomeLevels : RefWrite(g, R)

Spec == Init /\ [][Next]_vars

\* goroutines deriving Loggers by context and writing with them
NextCtx ==
    \E g \in Procs :
        \/ \E ctx \in Contexts : PkgC(g, ctx, MaxDerived)
        \/ \E ctx \in Contexts : RefC(g, ctx, MaxDerived)
        \/ \E ctx \in Contexts, R \in SomeLevels : PkgWriteCtx(g, ctx, R)
        \/ \E R \in SomeLevels : RefWrite(g, R)
        \/ RefSync(g)
        \/ PanicRecovered(g)
        \/ PanicCrash(g)

SpecCtx == Init /\ [][NextCtx]_vars

\* one goroutine constructs one Logger from any Options value and writes with it
NextBuild ==
    \/ held[1] = 0 /\ NewLoggerCall(1, AllOptions, Len(wrap) + 1)
    \/ NLDir(1)
    \/ NLBuild(1)
    \/ PanicRecovered(1)
    \/ PanicCrash(1)
    \/ \E R \in WriteLevels : RefWrite(1, R)
    \/ RefSync(1)

SpecBuild == Init /\ [][NextBuild]_vars

(* ------------------------------- claims -------------------------------- *)
FileCoresOf(z) == {i \in 1..Len(z.cores) : z.cores[i].kind = "file"}
ConsoleCoresOf(z) == {i \in 1..Len(z.cores) : z.cores[i].kind = "console"}

\* C1: every read of the slot std by a package-level call is ordered with the
\* writes of the slot and sees a fully constructed Logger, and at most one Init
\* replaces the slot at a time.
C1_ReadsOrderedWithWrites ==
    /\ lastRead.set => (~lastRead.raced /\ lastRead.complete)
    /\ Cardinality({g \in Procs : pc[g] = "assign"}) <= 1

\* C2 as stated: the mutex is never held while Logger construction is in
\* progress, only around the replacement of the pointer.
C2_HeldOnlyForReplacement ==
    \A g \in Procs : mu = g => pc[g] \in {"assign", "unlock"}

\* C2 as amended: the mutex is held by exactly the goroutine that is inside Init,
\* from mu.Lock() through construction and replacement to the deferred unlock;
\* a goroutine in any other call never holds it.
C2_HeldThroughoutInit ==
    /\ mu \in Procs \cup {Unlocked}
    /\ \A g \in Procs : (mu = g) <=> (call[g] = "Init")

\* C2's case: the mutex is held while a directory of the new Logger has been
\* handled and construction is still going on
C2_LockedDuringConstruction ==
    \E g \in Procs : mu = g /\ pc[g] = "dirs" /\ loc[g].i > 1

\* C3: a Logger reference obtained earlier keeps its level and sinks whatever
\* Init does later, and a package-level call that starts after an Init has
\* returned operates on a Logger at least as new as the one that Init built.
C3_OldKeepsNewSeesLatest ==
    /\ \A g \in Procs : held[g] # 0 => Z(held[g]).cores = heldSnap[g].cores
    /\ (lastRead.set /\ lastRead.done > 1) =>
           (lastRead.complete /\ lastRead.idx >= lastRead.done)

\* C9: when construction panics inside Init the slot std is left as it was and
\* the mutex is released as the panic unwinds, so a later Init can lock it.
C9_PanicInInitReleases ==
    [][\A g \in Procs :
          (call[g] = "Init" /\ pc[g] \in {"dirs", "panic"}) =>
              /\ writes' = writes
              /\ (call'[g] # "Init" => mu' = Unlocked)]_vars

\* C9's case: an Init panicked and was recovered, and a later Init has replaced
\* the slot and is about to return
C9_InitAfterFailedInit ==
    hadPanic /\ \E g \in Procs : pc[g] = "unlock" /\ mu = g

\* C10 as stated: whenever no call is in progress, ambient standard-library
\* logging flows through the same sinks as the currently active Logger.
C10_RedirectFollowsActive ==
    (\A g \in Procs : pc[g] = "idle") => zaps[stdlog].cores = Z(Std).cores

\* C10 as amended: ambient standard-library logging flows through the Logger
\* NewLogger built most recently, as built (no context fields), whether Init or
\* a direct call built it; it is the active Logger's when that one was built last.
C10_RedirectFollowsLatestBuilt ==
    /\ stdlog = built.z
    /\ zaps[stdlog].fields = <<>>
    /\ wrap[Std] = built.z => zaps[stdlog].cores = Z(Std).cores

\* C10's case: a direct NewLogger has returned, no call is in progress, and the
\* redirect targets its sinks, which are not those of the active Logger
C10_RedirectedAwayFromActive ==
    /\ \A g \in Procs : pc[g] = "idle"
    /\ \E g \in Procs : held[g] # 0 /\ wrap[held[g]] = stdlog
    /\ zaps[stdlog].cores # Z(Std).cores

\* the level each documented token stands for (options.go, Options.Level)
DocumentedLevel(t) ==
    CASE t = "debug" -> DebugLevel
      [] t = "info" -> InfoLevel
      [] t = "warn" -> WarnLevel
      [] t = "error" -> ErrorLevel
      [] t = "dpanic" -> DPanicLevel
      [] t = "panic" -> PanicLevel
      [] t = "fatal" -> FatalLevel

\* C4: a Logger built by NewLogger has one file sink per entry of OutputPaths, all
\* at one minimum level, and exactly one console sink; a record of any level
\* reaches the console sink, and reaches a file sink iff its level is at least
\* that sink's minimum.
C4_SinkDelivery ==
    LET z == zaps[built.z] IN
    /\ Cardinality(ConsoleCoresOf(z)) = 1
    /\ Cardinality(FileCoresOf(z)) = Len(built.paths)
    /\ \A i \in 1..Len(built.paths) :
          z.cores[i].kind = "file" /\ z.cores[i].file = LogFilename(built.paths[i])
    /\ \A i, j \in FileCoresOf(z) : z.cores[i].min = z.cores[j].min
    /\ (last.op = "write" /\ last.cores = z.cores) =>
          \A i \in 1..Len(z.cores) :
              last.to[i] = (z.cores[i].kind = "console" \/ last.level >= z.cores[i].min)

\* C4's case: a debug record written through a Logger configured above debug, with
\* two file sinks: the console takes it and no file does
C4_DebugOnlyToConsole ==
    /\ built.z > 1
    /\ Len(built.paths) = 2
    /\ last.op = "write" /\ last.cores = zaps[built.z].cores
    /\ last.level = DebugLevel
    /\ last.to = <<FALSE, FALSE, TRUE>>

\* C5: for every documented token the file sinks' minimum level is that token's
\* level, for every token that does not parse it is info, and construction panics
\* only at an output path, never on the level.
C5_LevelFromToken ==
    /\ \A i \in FileCoresOf(zaps[built.z]) :
          /\ built.token \in GoodTokens =>
                zaps[built.z].cores[i].min = DocumentedLevel(built.token)
          /\ built.token \in BadTokens => zaps[built.z].cores[i].min = InfoLevel
    /\ \A g \in Procs :
          (pc[g] = "panic" /\ call[g] \in {"Init", "NewLogger"}) =>
              loc[g].i <= Len(loc[g].paths)

\* C5's case: a Logger with a file sink was built from a token that does not parse
C5_BuiltFromBadToken ==
    built.z > 1 /\ built.token \in BadTokens /\ FileCoresOf(zaps[built.z]) # {}

\* C8 as stated: every output path of a Logger NewLogger returned has a parent
\* directory that exists and can be used; otherwise construction panicked.
C8_DirectoryUsableOrPanic ==
    \A i \in 1..Len(built.paths) : fs[Dir(built.paths[i])] = "exists"

\* C8 as amended: a parent directory os.Stat reports missing is created before the
\* sink is built, or construction panics when creating it fails; a directory that
\* os.Stat cannot examine or that exists but cannot be used does not stop
\* construction.
C8_MissingCreatedOrPanic ==
    /\ \A i \in 1..Len(built.paths) : ~StatNotExist(fs[Dir(built.paths[i])])
    /\ \A g \in Procs :
          (pc[g] = "dirs" /\ call[g] \in {"Init", "NewLogger"}) =>
              \A i \in 1..(loc[g].i - 1) : ~StatNotExist(fs[Dir(loc[g].paths[i])])
    /\ \A g \in Procs :
          (pc[g] = "panic" /\ call[g] \in {"Init", "NewLogger"}) =>
              /\ loc[g].i <= Len(loc[g].paths)
              /\ MkdirFails(fs[Dir(loc[g].paths[loc[g].i])])

\* C8's case: a Logger was returned whose first directory was missing and has been
\* created, and whose second exists but cannot be used
C8_CreatedAndUnusable ==
    /\ built.z > 1
    /\ built.paths = <<"./t/app.log", "/f/app.log">>
    /\ fs["t"] = "exists" /\ fs["/f"] = "unusable"

\* C6: C never changes the Logger it derives from nor any Logger obtained before:
\* the base keeps its fields and sinks, the result is another Logger, and the
\* result's fields are the base's followed by at most one field, whose value is the
\* token of the context of this derivation.
C6_CopyOnDerive ==
    /\ \A g \in Procs : held[g] # 0 => Z(held[g]) = heldSnap[g]
    /\ lastC.set =>
          LET b == Z(lastC.base)
              r == Z(lastC.res)
              n == Len(lastC.baseFields) IN
          /\ lastC.res # lastC.base
          /\ b.fields = lastC.baseFields /\ b.cores = lastC.baseCores
          /\ Len(r.fields) \in {n, n + 1}
          /\ SubSeq(r.fields, 1, n) = lastC.baseFields
          /\ \A i \in (n + 1)..Len(r.fields) :
                r.fields[i].val \in {lastC.ctx[k] : k \in CtxKeys} \ {Nil}

\* C6's case: two goroutines hold Loggers derived from std with different tokens,
\* each carrying its own token only, and std carries none
C6_TwoDerivedFromStd ==
    /\ Z(Std).fields = <<>>
    /\ \E g1, g2 \in Procs :
          /\ held[g1] # 0 /\ held[g2] # 0
          /\ Z(held[g1]).fields = <<[key |-> RequestId, val |-> "r1"]>>
          /\ Z(held[g2]).fields = <<[key |-> RequestId, val |-> "r2"]>>

\* C7 as stated: the token is looked up under the string "x-request-id"; a context
\* with a value there yields a Logger with that value attached, one without yields
\* a Logger like the base.
C7_KeyIsFieldName ==
    lastC.set =>
        LET r == Z(lastC.res) IN
        /\ r.cores = lastC.baseCores
        /\ r.fields = IF lastC.ctx[RequestId] # Nil
                      THEN Append(lastC.baseFields,
                                  [key |-> RequestId, val |-> lastC.ctx[RequestId]])
                      ELSE lastC.baseFields

\* C7 as amended: the token is looked up under the key RequestIdKey{}; a context
\* with a non-nil value there yields a Logger with that value attached under the
\* field name "x-request-id", any other context yields a Logger with the fields and
\* sinks of the base.
C7_KeyIsRequestIdKey ==
    lastC.set =>
        LET r == Z(lastC.res) IN
        /\ r.cores = lastC.baseCores
        /\ r.fields = IF lastC.ctx[RequestIdKey] # Nil
                      THEN Append(lastC.baseFields,
                                  [key |-> "x-request-id", val |-> lastC.ctx[RequestIdKey]])
                      ELSE lastC.baseFields

\* C7's case: the context carries a token under RequestIdKey{} only and the
\* derived Logger has it attached; a record written with it carries the field
C7_TokenUnderStructKey ==
    /\ lastC.set
    /\ lastC.ctx[RequestIdKey] = "r2" /\ lastC.ctx[RequestId] = "r1"
    /\ Z(lastC.res).fields = <<[key |-> "x-request-id", val |-> "r2"]>>
    /\ last.op = "write" /\ last.fields = Z(lastC.res).fields

====
